---- MODULE Spec2Model ----
(***************************************************************************)
(* The download windows of scripts/utils/downloader.py: the construction   *)
(* of PlaylistDownloader and VideoDownloader (stream selection and size    *)
(* labels), their event loops, and the download drivers with their         *)
(* progress reporting.                                                     *)
(*                                                                         *)
(* Python values are represented as follows.                               *)
(*   Optional[x]   a tuple: <<>> is None, <<x>> is the value x             *)
(*   str (titles)  a tuple of one-character strings                        *)
(*   label texts   records, see Unavailable, MB, OfText, PercentText       *)
(*   paths         records [parent, name, n], see rename_dir               *)
(***************************************************************************)
EXTENDS Integers, Sequences, FiniteSets, TLC

\* ------------------------------------------------------------------ bounds
MaxItems == 2      \* longest playlist.videos explored
MaxEvents == 2     \* events read by one event loop
Grid == 8          \* bytes_remaining is observed at multiples of filesize/Grid

\* ------------------------------------------------------- download options
LD == [RESOLUTION |-> "360p", TYPE |-> "video", PROGRESSIVE |-> TRUE, ABR |-> "None"]
HD == [RESOLUTION |-> "720p", TYPE |-> "video", PROGRESSIVE |-> TRUE, ABR |-> "None"]
AUDIO == [RESOLUTION |-> "None", TYPE |-> "audio", PROGRESSIVE |-> FALSE, ABR |-> "128kbps"]
Options == {HD, LD, AUDIO}

\* ------------------------------------------------------------- Optional[x]
None == <<>>
Some(x) == <<x>>
IsNone(x) == x = <<>>
Get(x) == x[1]

\* ------------------------------------------- the stream catalogue of a video
Adaptive720 == [itag |-> 136, resolution |-> "720p", type |-> "video",
                is_progressive |-> FALSE, abr |-> "None", filesize |-> 3145728]
Stream720 == [itag |-> 22, resolution |-> "720p", type |-> "video",
              is_progressive |-> TRUE, abr |-> "192kbps", filesize |-> 1572864]
Stream360 == [itag |-> 18, resolution |-> "360p", type |-> "video",
              is_progressive |-> TRUE, abr |-> "96kbps", filesize |-> 262144]
Audio128 == [itag |-> 140, resolution |-> "None", type |-> "audio",
             is_progressive |-> FALSE, abr |-> "128kbps", filesize |-> 400000]

Catalogues ==
    { <<Adaptive720, Stream720, Stream360, Audio128>>,   \* every option resolves
      <<Stream720, Stream360>>,                          \* no audio at 128kbps
      <<Adaptive720, Stream360, Audio128>>,              \* 720p only as adaptive
      <<Audio128>> }                                     \* audio only

Titles == { <<"a", "?">>, <<"b">> }
PlaylistTitles == { <<"p", ":">> }
Videos == [title : Titles, streams : Catalogues]

\* video.streams.filter(resolution=, type=, progressive=, abr=): an argument
\* that is None or False adds no filter.
Matches(s, download_option) ==
    /\ download_option.RESOLUTION # "None" => s.resolution = download_option.RESOLUTION
    /\ s.type = download_option.TYPE
    /\ download_option.PROGRESSIVE => s.is_progressive
    /\ download_option.ABR # "None" => s.abr = download_option.ABR

Filter(streams, download_option) ==
    SelectSeq(streams, LAMBDA s : Matches(s, download_option))

\* StreamQuery.first(): the first match or None
First(streams) == IF streams = <<>> THEN None ELSE Some(Head(streams))

\* VideoDownloader.get_video and the query of PlaylistDownloader.download
get_video(video, download_option) == First(Filter(video.streams, download_option))

\* PlaylistDownloader.get_playlist: one entry per video, None entries included
get_playlist(videos, download_option) ==
    [i \in 1..Len(videos) |-> get_video(videos[i], download_option)]

\* ------------------------------------------------------------ label texts
Label(kind, a, b) == [kind |-> kind, a |-> a, b |-> b]
Empty == Label("", 0, 0)                          \* ""
Unavailable == Label("Unavailable", 0, 0)         \* "Unavailable"
MB(tenths) == Label("MB", tenths \div 10, tenths % 10)   \* f"{a}.{b} MB"
OfText(k, n) == Label("of", k, n)                 \* f"{k} of {n}"
PercentText(p) == Label("% completed", p, 0)      \* f"{p}% completed"
AttributeError == Label("AttributeError", 0, 0)   \* the call raised instead

\* Python's round(): to the nearest, a tie to the even neighbour.
\* RoundHalfEven(n, d) is round(n / d).
RoundHalfEven(n, d) ==
    LET q == n \div d
        r == n % d
    IN  IF 2 * r < d THEN q
        ELSE IF 2 * r > d THEN q + 1
        ELSE IF q % 2 = 0 THEN q ELSE q + 1

\* round(total / 1048576, 1), in tenths of a MB
RoundMB(total) == RoundHalfEven(total * 10, 1048576)

\* VideoDownloader.get_video_size
get_video_size(select_dict, download_option) ==
    IF IsNone(select_dict[download_option]) THEN Unavailable
    ELSE MB(RoundMB(Get(select_dict[download_option]).filesize))

RECURSIVE SumFilesize(_)
SumFilesize(list) ==
    IF list = <<>> THEN 0 ELSE Get(Head(list)).filesize + SumFilesize(Tail(list))

\* PlaylistDownloader.get_playlist_size: video.filesize of a None entry raises
get_playlist_size(select_dict, download_option) ==
    IF IsNone(select_dict[download_option]) THEN Unavailable
    ELSE LET list == Get(select_dict[download_option])
         IN  IF \E i \in 1..Len(list) : IsNone(list[i]) THEN AttributeError
             ELSE MB(RoundMB(SumFilesize(list)))

\* PlaylistDownloader.__init__, the binding of the lists to the options
PlaylistSelectDict(videos, length) ==
    LET hd_list == get_playlist(videos, HD)
        ld_list == get_playlist(videos, LD)
        audio_list == get_playlist(videos, AUDIO)
    IN  [o \in Options |->
            IF o = HD THEN (IF Len(hd_list) = length THEN Some(hd_list) ELSE None)
            ELSE IF o = LD THEN (IF Len(ld_list) = length THEN Some(ld_list) ELSE None)
            ELSE (IF Len(audio_list) = length THEN Some(ld_list) ELSE None)]

\* VideoDownloader.__init__, the binding of the streams to the options
VideoSelectDict(video) == [o \in Options |-> get_video(video, o)]

\* --------------------------------------------- names and paths (base class)
Forbidden == {"\\", "/", ":", "*", "?", "\"", "<", ">", "|"}
remove_forbidden_characters(name) == SelectSeq(name, LAMBDA c : c \notin Forbidden)

\* A directory is [parent, name, n]: parent/name, with the suffix " (n)" when
\* n > 0.  The folder the user picked is [parent |-> folder, name |-> <<>>, n |-> 0].
Dir(parent, name, n) == [parent |-> parent, name |-> name, n |-> n]
Folders == {"", "d"}

\* rename_dir: parent/name if it does not exist, else the first free suffix
rename_dir(existing, parent, name) ==
    LET free == {n \in 0..Cardinality(existing) : Dir(parent, name, n) \notin existing}
    IN  Dir(parent, name, CHOOSE n \in free : \A m \in free : n <= m)

\* A file is [dir, stem, n]: dir/stem.mp4, with the suffix " (n)" when n > 0.
File(dir, stem, n) == [dir |-> dir, stem |-> stem, n |-> n]

\* rename_file: the name if no such file exists in the folder, else the first
\* free suffix
rename_file(existing, folder, name) ==
    LET free == {n \in 0..Cardinality(existing) :
                    File(Dir(folder, <<>>, 0), name, n) \notin existing}
    IN  CHOOSE n \in free : \A m \in free : n <= m

\* ------------------------------------------------------------------- state
VARIABLES
    kind,             \* "playlist" or "video": which window was opened
    title,            \* playlist.title / video.title
    videos,           \* playlist.videos; for a video window, the one video
    length,           \* playlist.length, the count the playlist page reports
    select_dict,      \* self.select_dict
    size_text,        \* the size labels computed by __init__
    pc,               \* "new", "read", "loop", "transfer", "closed", "crashed"
    error,            \* the exception that left the process, or "none"
    folder,           \* self.folder
    event,            \* the (event, values) pair last returned by read()
    nread,            \* number of events read
    download_option,  \* the option of the download call in progress
    download_dir,     \* download_dir of PlaylistDownloader.download
    filename,         \* the output file of VideoDownloader.download
    download_counter, \* download_counter of PlaylistDownloader.download
    bytes_remaining,  \* bytes_remaining of the transfer in progress
    bar,              \* value of "-DOWNLOADPROGRESS-"
    text,             \* value of "-COMPLETED-"
    notices,          \* number of popups shown, by popup
    browser,          \* URLs handed to webbrowser.open, in order
    closes,           \* calls of download_window.close()
    dirs,             \* directories on disk
    files,            \* files on disk
    transferred       \* streams transferred by the download call in progress

env == <<kind, title, videos, length>>
window == <<bar, text>>
disk == <<dirs, files>>
call == <<download_option, download_dir, filename, download_counter,
          bytes_remaining, transferred>>
vars == <<kind, title, videos, length, select_dict, size_text, pc, error, folder,
          event, nread, download_option, download_dir, filename, download_counter,
          bytes_remaining, bar, text, notices, browser, closes, dirs, files,
          transferred>>

WIN_CLOSED == "WIN_CLOSED"
PlaylistEvents == {WIN_CLOSED, "-URL-", "-OWNER-", "-HD-", "-LD-", "-AUDIOALL-", "-FOLDER-"}
VideoEvents == {WIN_CLOSED, "-URL-", "-CREATOR-", "-THUMB-", "-HD-", "-LD-", "-AUDIO-", "-FOLDER-"}
\* values: None, or the dict, of which only values["-FOLDER-"] is read
Values == {None} \cup {Some(f) : f \in Folders}

DOWNLOAD_DIR_POPUP == "Please select a download directory"
RESOLUTION_UNAVAILABLE_POPUP == "This resolution is resolution unavailable."
DOWNLOAD_COMPLETED == "Download completed"
Popups == {DOWNLOAD_DIR_POPUP, RESOLUTION_UNAVAILABLE_POPUP, DOWNLOAD_COMPLETED}
Popup(p) == notices' = [notices EXCEPT ![p] = @ + 1]

\* Breaks with the WIN_CLOSED test left out
BreaksOnValuesOnly(e, values) == IsNone(values)

\* The tests that end an event loop: values["-FOLDER-"] raises TypeError when
\* values is None, and the event is WIN_CLOSED.
Breaks(e, values) == IsNone(values) \/ e = WIN_CLOSED

RECURSIVE SeqsUpTo(_, _)
SeqsUpTo(S, n) ==
    IF n = 0 THEN {<<>>}
    ELSE LET shorter == SeqsUpTo(S, n - 1)
         IN  shorter \cup {Append(q, x) : q \in {r \in shorter : Len(r) = n - 1}, x \in S}

Init ==
    /\ kind \in {"playlist", "video"}
    /\ title \in IF kind = "playlist" THEN PlaylistTitles ELSE Titles
    /\ videos \in IF kind = "playlist" THEN SeqsUpTo(Videos, MaxItems)
                  ELSE {<<v>> : v \in {w \in Videos : w.title = title}}
    \* playlist.length is read from the playlist page; it counts entries that
    \* playlist.videos does not list (hidden or removed videos)
    /\ length \in IF kind = "playlist" THEN {Len(videos), Len(videos) + 1} ELSE {1}
    /\ select_dict = [o \in Options |-> None]
    /\ size_text = [o \in Options |-> Empty]
    /\ pc = "new"
    /\ error = "none"
    /\ folder = ""
    /\ event = <<"", None>>
    /\ nread = 0
    /\ download_option = HD
    /\ download_dir = Dir("", <<>>, 0)
    /\ filename = File(Dir("", <<>>, 0), <<>>, 0)
    /\ download_counter = 0
    /\ bytes_remaining = 0
    /\ bar = 0
    /\ text = Empty
    /\ notices = [p \in Popups |-> 0]
    /\ browser = <<>>
    /\ closes = 0
    /\ dirs = {}
    /\ files = {}
    /\ transferred = <<>>

\* -------------------------------------------------------- PlaylistDownloader
\* __init__: the selection, then the size labels of the layout, HD, LD, AUDIO.
\* A size label that raises ends the construction with the exception.
PlaylistDownloaderInit ==
    /\ pc = "new" /\ kind = "playlist"
    /\ select_dict' = PlaylistSelectDict(videos, length)
    /\ size_text' = [o \in Options |-> get_playlist_size(select_dict', o)]
    /\ IF \E o \in Options : size_text'[o] = AttributeError
       THEN pc' = "crashed" /\ error' = "AttributeError"
       ELSE pc' = "read" /\ error' = error
    /\ UNCHANGED <<env, folder, event, nread, call, window, notices, browser,
                   closes, disk>>

\* PlaylistDownload with the folder check left out
PlaylistDownloadNoFolderCheck(option) ==
    IF IsNone(select_dict[option])
    THEN /\ Popup(RESOLUTION_UNAVAILABLE_POPUP)
         /\ pc' = "read"
         /\ UNCHANGED call
    ELSE /\ download_dir' = rename_dir(dirs, folder', remove_forbidden_characters(title))
         /\ download_counter' = 0
         /\ download_option' = option
         /\ transferred' = <<>>
         /\ pc' = "loop"
         /\ UNCHANGED <<notices, filename, bytes_remaining>>

\* download, up to the loop: the two checks, then download_dir and the counter
PlaylistDownload(option) ==
    IF IsNone(select_dict[option])
    THEN /\ Popup(RESOLUTION_UNAVAILABLE_POPUP)
         /\ pc' = "read"
         /\ UNCHANGED call
    ELSE IF folder' = ""
    THEN /\ Popup(DOWNLOAD_DIR_POPUP)
         /\ pc' = "read"
         /\ UNCHANGED call
    ELSE /\ download_dir' = rename_dir(dirs, folder', remove_forbidden_characters(title))
         /\ download_counter' = 0
         /\ download_option' = option
         /\ transferred' = <<>>
         /\ pc' = "loop"
         /\ UNCHANGED <<notices, filename, bytes_remaining>>

\* create_window: one turn of the event loop, up to the point where the
\* handler returns, the loop ends, or download enters its loop
PlaylistCreateWindow ==
    /\ pc = "read" /\ kind = "playlist"
    /\ \E e \in PlaylistEvents, values \in Values :
        /\ Breaks(e, values) \/ nread < MaxEvents
        /\ event' = <<e, values>>
        /\ nread' = nread + 1
        /\ folder' = IF IsNone(values) THEN folder ELSE Get(values)
        /\ IF Breaks(e, values)
           THEN \* break, then download_window.close()
                /\ pc' = "closed" /\ closes' = closes + 1
                /\ UNCHANGED <<browser, notices, call>>
           ELSE /\ closes' = closes
                /\ browser' = IF e = "-URL-" THEN Append(browser, "url")
                              ELSE IF e = "-OWNER-" THEN Append(browser, "owner_url")
                              ELSE browser
                /\ IF e = "-HD-" THEN PlaylistDownload(HD)
                   ELSE IF e = "-LD-" THEN PlaylistDownload(LD)
                   ELSE IF e = "-AUDIOALL-" THEN PlaylistDownload(AUDIO)
                   ELSE pc' = "read" /\ UNCHANGED <<notices, call>>
    /\ UNCHANGED <<env, select_dict, size_text, error, window, disk>>

\* PlaylistDownloadItem with the loop in a try/finally that resets the
\* progress display
PlaylistDownloadItemFinally ==
    /\ pc = "loop" /\ download_counter < Len(videos)
    /\ LET video == videos[download_counter + 1]
           stream == get_video(video, download_option)
       IN  IF IsNone(stream)
           THEN /\ pc' = "crashed" /\ error' = "AttributeError"
                /\ bar' = 0 /\ text' = Empty
                /\ UNCHANGED <<download_counter, transferred, disk>>
           ELSE \/ /\ dirs' = dirs \cup {download_dir}
                   /\ files' = files \cup
                        {File(download_dir, remove_forbidden_characters(video.title), 0)}
                   /\ transferred' = Append(transferred, Get(stream))
                   /\ download_counter' = download_counter + 1
                   /\ bar' = download_counter'
                   /\ text' = OfText(download_counter', length)
                   /\ UNCHANGED <<pc, error>>
                \/ /\ dirs' = dirs \cup {download_dir}
                   /\ pc' = "crashed" /\ error' = "TransferFailure"
                   /\ bar' = 0 /\ text' = Empty
                   /\ UNCHANGED <<download_counter, transferred, files>>
    /\ UNCHANGED <<env, select_dict, size_text, folder, event, nread,
                   download_option, download_dir, filename, bytes_remaining,
                   notices, browser, closes>>

\* download, one turn of the loop over playlist.videos: the stream is looked
\* up again under the option's filters and transferred into download_dir
PlaylistDownloadItem ==
    /\ pc = "loop" /\ download_counter < Len(videos)
    /\ LET video == videos[download_counter + 1]
           stream == get_video(video, download_option)
       IN  IF IsNone(stream)
           THEN \* None.download(...)
                /\ pc' = "crashed" /\ error' = "AttributeError"
                /\ UNCHANGED <<download_counter, transferred, window, disk>>
           ELSE \/ /\ dirs' = dirs \cup {download_dir}
                   /\ files' = files \cup
                        {File(download_dir, remove_forbidden_characters(video.title), 0)}
                   /\ transferred' = Append(transferred, Get(stream))
                   /\ download_counter' = download_counter + 1
                   /\ bar' = download_counter'
                   /\ text' = OfText(download_counter', length)
                   /\ UNCHANGED <<pc, error>>
                \/ \* the transfer raises
                   /\ dirs' = dirs \cup {download_dir}
                   /\ pc' = "crashed" /\ error' = "TransferFailure"
                   /\ UNCHANGED <<download_counter, transferred, window, files>>
    /\ UNCHANGED <<env, select_dict, size_text, folder, event, nread,
                   download_option, download_dir, filename, bytes_remaining,
                   notices, browser, closes>>

\* __download_complete, called when the loop is over
PlaylistDownloadComplete ==
    /\ pc = "loop" /\ download_counter = Len(videos)
    /\ bar' = 0
    /\ text' = Empty
    /\ Popup(DOWNLOAD_COMPLETED)
    /\ pc' = "read"
    /\ UNCHANGED <<env, select_dict, size_text, error, folder, event, nread, call,
                   browser, closes, disk>>

\* ----------------------------------------------------------- VideoDownloader
\* __init__: the selection, then the size labels of the layout
VideoDownloaderInit ==
    /\ pc = "new" /\ kind = "video"
    /\ select_dict' = VideoSelectDict(videos[1])
    /\ size_text' = [o \in Options |-> get_video_size(select_dict', o)]
    /\ pc' = "read"
    /\ UNCHANGED <<env, error, folder, event, nread, call, window, notices,
                   browser, closes, disk>>

\* VideoDownload with the two checks in the other order
VideoDownloadFolderFirst(option) ==
    IF folder' = ""
    THEN /\ Popup(DOWNLOAD_DIR_POPUP)
         /\ pc' = "read"
         /\ UNCHANGED call
    ELSE IF IsNone(select_dict[option])
    THEN /\ Popup(RESOLUTION_UNAVAILABLE_POPUP)
         /\ pc' = "read"
         /\ UNCHANGED call
    ELSE /\ filename' = File(Dir(folder', <<>>, 0), remove_forbidden_characters(title),
                             rename_file(files, folder', remove_forbidden_characters(title)))
         /\ download_option' = option
         /\ bytes_remaining' = Get(select_dict[option]).filesize
         /\ transferred' = <<>>
         /\ pc' = "transfer"
         /\ UNCHANGED <<notices, download_dir, download_counter>>

\* download: the two checks, then the call of Stream.download, which opens
\* the transfer with the whole file remaining
VideoDownload(option) ==
    IF IsNone(select_dict[option])
    THEN /\ Popup(RESOLUTION_UNAVAILABLE_POPUP)
         /\ pc' = "read"
         /\ UNCHANGED call
    ELSE IF folder' = ""
    THEN /\ Popup(DOWNLOAD_DIR_POPUP)
         /\ pc' = "read"
         /\ UNCHANGED call
    ELSE /\ filename' = File(Dir(folder', <<>>, 0), remove_forbidden_characters(title),
                             rename_file(files, folder', remove_forbidden_characters(title)))
         /\ download_option' = option
         /\ bytes_remaining' = Get(select_dict[option]).filesize
         /\ transferred' = <<>>
         /\ pc' = "transfer"
         /\ UNCHANGED <<notices, download_dir, download_counter>>

\* create_window: one turn of the event loop, up to the point where the
\* handler returns, the loop ends, or download starts its transfer
VideoCreateWindow ==
    /\ pc = "read" /\ kind = "video"
    /\ \E e \in VideoEvents, values \in Values :
        /\ Breaks(e, values) \/ nread < MaxEvents
        /\ event' = <<e, values>>
        /\ nread' = nread + 1
        /\ folder' = IF IsNone(values) THEN folder ELSE Get(values)
        /\ IF Breaks(e, values)
           THEN \* break, then download_window.close()
                /\ pc' = "closed" /\ closes' = closes + 1
                /\ UNCHANGED <<browser, notices, call>>
           ELSE /\ closes' = closes
                /\ browser' = IF e = "-URL-" THEN Append(browser, "url")
                              ELSE IF e = "-CREATOR-" THEN Append(browser, "channel_url")
                              ELSE IF e = "-THUMB-" THEN Append(browser, "thumbnail_url")
                              ELSE browser
                /\ IF e = "-HD-" THEN VideoDownload(HD)
                   ELSE IF e = "-LD-" THEN VideoDownload(LD)
                   ELSE IF e = "-AUDIO-" THEN VideoDownload(AUDIO)
                   ELSE pc' = "read" /\ UNCHANGED <<notices, call>>
    /\ UNCHANGED <<env, select_dict, size_text, error, window, disk>>

\* Percent without the subtraction from 100
PercentOfRemaining(remaining, filesize) == RoundHalfEven(remaining * 100, filesize)

\* 100 - round(bytes_remaining / stream.filesize * 100)
Percent(remaining, filesize) == 100 - RoundHalfEven(remaining * 100, filesize)

\* the values of bytes_remaining at which the transfer reports progress
GridPoints(filesize) == {(filesize * j) \div Grid : j \in 0..Grid}

\* __progress_check, called by the transfer after each chunk written
ProgressCheck ==
    /\ pc = "transfer" /\ bytes_remaining > 0
    /\ LET filesize == Get(select_dict[download_option]).filesize
       IN  \E r \in GridPoints(filesize) :
            /\ r < bytes_remaining
            /\ bytes_remaining' = r
            /\ bar' = Percent(r, filesize)
            /\ text' = PercentText(Percent(r, filesize))
    /\ UNCHANGED <<env, select_dict, size_text, pc, error, folder, event, nread,
                   download_option, download_dir, filename, download_counter,
                   transferred, notices, browser, closes, disk>>

\* OnComplete without the reset of "-COMPLETED-"
OnCompleteKeepsText ==
    /\ pc = "transfer" /\ bytes_remaining = 0
    /\ files' = files \cup {filename}
    /\ transferred' = Append(transferred, Get(select_dict[download_option]))
    /\ bar' = 0
    /\ Popup(DOWNLOAD_COMPLETED)
    /\ pc' = "read"
    /\ UNCHANGED <<env, select_dict, size_text, error, folder, event, nread,
                   download_option, download_dir, filename, download_counter,
                   bytes_remaining, browser, closes, dirs, text>>

\* __on_complete, called by the transfer once the file is written; download
\* then returns to the event loop
OnComplete ==
    /\ pc = "transfer" /\ bytes_remaining = 0
    /\ files' = files \cup {filename}
    /\ transferred' = Append(transferred, Get(select_dict[download_option]))
    /\ bar' = 0
    /\ text' = Empty
    /\ Popup(DOWNLOAD_COMPLETED)
    /\ pc' = "read"
    /\ UNCHANGED <<env, select_dict, size_text, error, folder, event, nread,
                   download_option, download_dir, filename, download_counter,
                   bytes_remaining, browser, closes, dirs>>

\* the transfer raises before the file is written
VideoTransferFails ==
    /\ pc = "transfer" /\ bytes_remaining > 0
    /\ pc' = "crashed" /\ error' = "TransferFailure"
    /\ UNCHANGED <<env, select_dict, size_text, folder, event, nread, call, window,
                   notices, browser, closes, disk>>

Next ==
    \/ PlaylistDownloaderInit
    \/ PlaylistCreateWindow
    \/ PlaylistDownloadItem
    \/ PlaylistDownloadComplete
    \/ VideoDownloaderInit
    \/ VideoCreateWindow
    \/ ProgressCheck
    \/ OnComplete
    \/ VideoTransferFails

Spec == Init /\ [][Next]_vars

\* ================================================================== claims
DownloadEvents == {"-HD-", "-LD-", "-AUDIO-", "-AUDIOALL-"}
OptionOf(e) == IF e = "-HD-" THEN HD ELSE IF e = "-LD-" THEN LD ELSE AUDIO
\* a step of an event loop that reads an event
ReadStep == nread' = nread + 1
\* a step in which the event loop calls download(OptionOf(event'[1]))
DownloadCalled == ReadStep /\ event'[1] \in DownloadEvents /\ ~IsNone(event'[2])
\* every item of the target has a stream under the option's filters
Resolves(o) == \A i \in 1..Len(videos) : ~IsNone(get_video(videos[i], o))
\* __init__ has returned
Constructed == pc # "new" /\ ~(pc = "crashed" /\ nread = 0)
\* download(OptionOf(event[1])) has just returned
Returned == pc = "read" /\ event[1] \in DownloadEvents /\ ~IsNone(event[2])

RECURSIVE SumResolved(_)
SumResolved(list) ==
    IF list = <<>> THEN 0
    ELSE (IF IsNone(Head(list)) THEN 0 ELSE Get(Head(list)).filesize)
         + SumResolved(Tail(list))

\* C1: in a constructed PlaylistDownloader whose playlist reports as many
\* items as it lists, the selection entry of every option is available exactly
\* when every item of the playlist has a stream under that option's filters.
C1_AllOrNothing ==
    (kind = "playlist" /\ Constructed /\ length = Len(videos)) =>
        \A o \in Options : ~IsNone(select_dict[o]) <=> Resolves(o)

\* C2: a download call whose selection entry is None shows the
\* resolution-unavailable popup and nothing else: no other popup (whatever the
\* folder), no transfer, no directory or file, the progress display unchanged.
C2_ResolutionUnavailable ==
    [][ (DownloadCalled /\ IsNone(select_dict[OptionOf(event'[1])])) =>
            /\ notices' = [notices EXCEPT ![RESOLUTION_UNAVAILABLE_POPUP] = @ + 1]
            /\ pc' = "read" /\ error' = error
            /\ UNCHANGED <<dirs, files, bar, text, transferred, browser>> ]_vars

\* C2 witness: a playlist download was asked for with an empty folder and an
\* unavailable selection, and only the resolution-unavailable popup was shown.
C2_Witness ==
    /\ kind = "playlist" /\ Returned /\ event[2] = Some("")
    /\ IsNone(select_dict[OptionOf(event[1])])
    /\ notices[RESOLUTION_UNAVAILABLE_POPUP] = 1
    /\ notices[DOWNLOAD_DIR_POPUP] = 0

\* C3: a download call whose selection entry is available but whose event
\* carries an empty folder shows the download-directory popup and nothing
\* else: no transfer, no directory or file, the progress display unchanged.
C3_NoDestination ==
    [][ (DownloadCalled /\ ~IsNone(select_dict[OptionOf(event'[1])])
            /\ Get(event'[2]) = "") =>
            /\ notices' = [notices EXCEPT ![DOWNLOAD_DIR_POPUP] = @ + 1]
            /\ pc' = "read" /\ error' = error
            /\ UNCHANGED <<dirs, files, bar, text, transferred, browser>> ]_vars

\* C3 witness: a single video whose 720p stream exists was asked for with an
\* empty folder, and the download-directory popup was shown.
C3_Witness ==
    /\ kind = "video" /\ Returned /\ event = <<"-HD-", Some("")>>
    /\ ~IsNone(select_dict[HD])
    /\ notices[DOWNLOAD_DIR_POPUP] = 1
    /\ files = {}

\* C4: while a playlist whose N items all resolve under the option is being
\* downloaded, the directory is new and carries the sanitized playlist title,
\* the streams transferred so far are those of the first k items in order,
\* the display shows k and "k of N", and when all N are done the directory
\* holds exactly N files.
C4_PlaylistDownload ==
    (kind = "playlist" /\ pc = "loop" /\ Resolves(download_option)) =>
        /\ download_dir.name = remove_forbidden_characters(title)
        /\ download_counter = 0 => download_dir \notin dirs
        /\ transferred = [i \in 1..download_counter |->
                            Get(get_video(videos[i], download_option))]
        /\ download_counter > 0 =>
              bar = download_counter /\ text = OfText(download_counter, Len(videos))
        /\ download_counter = Len(videos) =>
              Cardinality({f \in files : f.dir = download_dir}) = Len(videos)

\* C5: after construction the size label of every option is "Unavailable"
\* when its selection entry is None, and otherwise the MB figure of the total
\* size of the streams resolved under that option; computing it never raises.
C5_SizeLabels ==
    pc # "new" =>
        \A o \in Options :
            size_text[o] = IF IsNone(select_dict[o]) THEN Unavailable
                           ELSE MB(RoundMB(SumResolved(get_playlist(videos, o))))

\* C6: whenever the window waits for an event the bar is 0 and the text is
\* empty; the step that returns from a completed download has reset both and
\* shown the completion popup once, and no other step shows that popup.
C6_ResetOnSuccess ==
    /\ [](pc = "read" => bar = 0 /\ text = Empty)
    /\ [][ /\ (pc \in {"loop", "transfer"} /\ pc' = "read") =>
                /\ bar' = 0 /\ text' = Empty
                /\ notices' = [notices EXCEPT ![DOWNLOAD_COMPLETED] = @ + 1]
           /\ notices'[DOWNLOAD_COMPLETED] # notices[DOWNLOAD_COMPLETED] =>
                pc \in {"loop", "transfer"} /\ pc' = "read" ]_vars

\* C6 witness: the window waits for an event after a download that wrote a
\* file and showed the completion popup.
C6_Witness ==
    /\ Returned /\ notices[DOWNLOAD_COMPLETED] = 1 /\ files # {}
    /\ transferred # <<>>

\* C7: when item k of a playlist download fails, the step that fails changes
\* neither the display, the files, the popups nor the count of items done;
\* the process is then stopped for good with the window not closed, the
\* display showing the k-1 items done and their k-1 files on disk.
C7_FailurePropagates ==
    /\ []((kind = "playlist" /\ pc = "crashed" /\ nread > 0) =>
            /\ closes = 0
            /\ bar = download_counter
            /\ text = IF download_counter = 0 THEN Empty
                      ELSE OfText(download_counter, Len(videos))
            /\ Len(transferred) = download_counter
            /\ \A j \in 1..download_counter :
                 File(download_dir, remove_forbidden_characters(videos[j].title), 0)
                    \in files)
    /\ [][ /\ (pc = "loop" /\ pc' = "crashed") =>
                UNCHANGED <<bar, text, files, notices, transferred,
                            download_counter, closes>>
           /\ pc # "crashed" ]_vars

\* C7 witness: the transfer of the second item of a playlist failed after the
\* first was written.
C7_Witness ==
    /\ kind = "playlist" /\ pc = "crashed" /\ error = "TransferFailure"
    /\ download_counter = 1 /\ bar = 1 /\ Cardinality(files) = 1

\* C8: an event that is WIN_CLOSED or whose values are None ends the loop: the
\* window is closed, once, and nothing else happens (no browser, no popup, no
\* transfer, no error); every other event keeps the loop alive, which waits
\* again as soon as the handler has returned; a closed window takes no step.
C8_LoopEnds ==
    /\ [](closes = IF pc = "closed" THEN 1 ELSE 0)
    /\ [][ /\ ReadStep =>
                IF IsNone(event'[2]) \/ event'[1] = WIN_CLOSED
                THEN /\ pc' = "closed" /\ error' = error
                     /\ UNCHANGED <<browser, notices, dirs, files, bar, text,
                                    transferred>>
                ELSE IF event'[1] \in DownloadEvents
                THEN pc' \in {"read", "loop", "transfer"}
                ELSE pc' = "read"
           /\ pc \in {"loop", "transfer"} =>
                pc' \in {"loop", "transfer", "read", "crashed"}
           /\ pc # "closed" ]_vars

\* C8 witness: a download event arrived without values as the second event;
\* the window was closed and nothing was downloaded.
C8_Witness ==
    /\ pc = "closed" /\ event = <<"-HD-", None>> /\ nread = 2
    /\ closes = 1 /\ files = {}

\* C9: in a constructed PlaylistDownloader every available entry of the
\* selection is the list of streams resolved under its own option, one per
\* item, and the streams a download transfers are those of the entry, in order.
C9_OwnStreams ==
    (kind = "playlist" /\ Constructed) =>
        /\ \A o \in Options :
             ~IsNone(select_dict[o]) => Get(select_dict[o]) = get_playlist(videos, o)
        /\ pc = "loop" =>
             \A i \in 1..Len(transferred) :
                Some(transferred[i]) = Get(select_dict[download_option])[i]

\* C10: once a progress callback has run in a single-video transfer, the text
\* is "<bar>% completed", the bar is within 0..100, is the integer nearest to
\* the percentage transferred, and is 100 when nothing remains; a callback
\* never lowers the bar.
C10_Percent ==
    /\ []((pc = "transfer"
            /\ bytes_remaining < Get(select_dict[download_option]).filesize) =>
            LET filesize == Get(select_dict[download_option]).filesize
                off == 100 * bytes_remaining - (100 - bar) * filesize
            IN  /\ text = PercentText(bar)
                /\ bar \in 0..100
                /\ 2 * off <= filesize /\ -2 * off <= filesize
                /\ bytes_remaining = 0 => bar = 100)
    /\ [][ (pc = "transfer" /\ pc' = "transfer") => bar' >= bar ]_vars

\* C10 witness: an eighth of the file remains, 12.5 rounds to 12, the bar is 88.
C10_Witness ==
    /\ pc = "transfer"
    /\ bytes_remaining * 8 = Get(select_dict[download_option]).filesize
    /\ bar = 88 /\ text = PercentText(88)

====
